---------------------------- MODULE Spec2Model ----------------------------
(***************************************************************************)
(* A model of the P4 Analyzer stdin/stdout adapter                         *)
(* (packages/p4-analyzer/src/server/index.ts): the inbound framer          *)
(* onReceiveRequestBuffer, the request queue drained by                    *)
(* sendRequestMessageBuffer, the bytes that reach them, the promises of    *)
(* the server and main around them, and the outbound onResponseBuffer.     *)
(*                                                                         *)
(* Bytes and characters are their ASCII codes.  A Buffer is a record       *)
(* [byteLength, data]: data holds the leading cells of the buffer and      *)
(* every cell from Len(data) up to byteLength is the zero byte that        *)
(* Buffer.alloc wrote.  A cell is <<byte, src>>: src is a history tag, the *)
(* 1-based index in the input stream of the byte that was copied there (0  *)
(* for a zero-filled cell); no operation of the program reads it.          *)
(***************************************************************************)
EXTENDS Integers, Sequences, FiniteSets

\* The longest chunk a single 'data' event delivers in the model.
MaxChunkLen == 46

\* index.ts:6  "\r\n\r\n"
BODY_SPLIT_CHARS == <<13, 10, 13, 10>>

\* index.ts:11
BUFFER_CHUNK_SIZEBYTES == 2048

\* index.ts:16  the literal part of the pattern, "Content-Length:"
CONTENTLENGTH_LITERAL == <<67, 111, 110, 116, 101, 110, 116, 45, 76, 101, 110, 103, 116, 104, 58>>

\* Number(undefined) (index.ts:87) and what isNaN (index.ts:89) tests for.
NaN == -1

Min(a, b) == IF a < b THEN a ELSE b

Max(a, b) == IF a > b THEN a ELSE b

---------------------------------------------------------------------------
(* Node's Buffer, as far as the adapter uses it.                           *)

ZeroCell == <<0, 0>>

\* Buffer.alloc(size): size zero bytes.
Alloc(size) == [byteLength |-> size, data |-> <<>>]

\* n zero-filled cells.
Zeros(n) == [i \in 1..n |-> ZeroCell]

\* buffer[i], 0-based.
CellAt(buffer, i) == IF i < Len(buffer.data) THEN buffer.data[i + 1] ELSE ZeroCell

\* The cells [start, end) of a buffer (none when end <= start).
Cells(buffer, start, end) ==
    SubSeq(buffer.data, start + 1, Min(end, Len(buffer.data)))
        \o Zeros(Max(0, end - Max(start, Len(buffer.data))))

\* The bytes (without the history tags) of cells [start, end) of a buffer.
BytesOf(buffer, start, end) == [i \in 1..(end - start) |-> CellAt(buffer, start + i - 1)[1]]

\* The history tags of cells [start, end) of a buffer.
TagsOf(buffer, start, end) == [i \in 1..(end - start) |-> CellAt(buffer, start + i - 1)[2]]

\* The cells without the zero-filled ones at the end (which data leaves out).
Trimmed(cells) ==
    LET used == {i \in DOMAIN cells : cells[i] # ZeroCell}
    IN  IF used = {} THEN <<>>
        ELSE SubSeq(cells, 1, CHOOSE i \in used : \A j \in (i + 1)..Len(cells) : cells[j] = ZeroCell)

\* A new buffer of the length of both, into which a's bytes are not copied.
ConcatUnfilled(a, b) == [byteLength |-> a.byteLength + b.byteLength, data |-> <<>>]

\* Buffer.concat([a, b]): a new buffer holding a's bytes, then b's.
Concat(a, b) ==
    [byteLength |-> a.byteLength + b.byteLength,
     data |-> IF b.data = <<>> THEN a.data ELSE Cells(a, 0, a.byteLength) \o b.data]

\* TypedArray.prototype.set of nb bytes of source, from sourceStart, at
\* targetStart of target; the bytes are read before any is written (the two
\* may be the same buffer).  Only the cells below live can be other than zero.
SetBytes(target, targetStart, source, sourceStart, nb) ==
    LET live == Max(Len(target.data),
                    targetStart + Max(0, Min(nb, Len(source.data) - sourceStart)))
        upto == Min(targetStart + nb, live)
    IN  [byteLength |-> target.byteLength,
         data |-> IF live <= targetStart THEN target.data
                  ELSE Trimmed(Cells(target, 0, targetStart)
                                 \o Cells(source, sourceStart, sourceStart + (upto - targetStart))
                                 \o Cells(target, upto, live))]

\* source.copy(target, targetStart, sourceStart, sourceEnd): the target after
\* the call, the number of bytes copied, and whether the call threw
\* ERR_OUT_OF_RANGE (sourceStart beyond the source).
Copy(source, target, targetStart, sourceStart, sourceEnd) ==
    IF sourceStart > source.byteLength
    THEN [target |-> target, copied |-> 0, threw |-> TRUE]
    ELSE IF targetStart >= target.byteLength \/ sourceStart >= sourceEnd
    THEN [target |-> target, copied |-> 0, threw |-> FALSE]
    ELSE LET room == target.byteLength - targetStart
             nb == Min(Min(sourceEnd - sourceStart, room), source.byteLength - sourceStart)
         IN  [target |-> SetBytes(target, targetStart, source, sourceStart, nb),
              copied |-> nb, threw |-> FALSE]

\* buffer.lastIndexOf(pattern): the offset of the last occurrence.
LastIndexOf(buffer, pattern) ==
    LET n == Len(pattern)
        hits == {i \in 0..(Len(buffer.data) - n) :
                    \A k \in 1..n : CellAt(buffer, i + k - 1)[1] = pattern[k]}
    IN  IF hits = {} THEN -1 ELSE CHOOSE i \in hits : \A j \in hits : i >= j

\* buffer.indexOf(pattern): the 0-based offset of the first occurrence of the
\* pattern anywhere in the buffer, -1 when there is none.  No byte of the
\* pattern is zero, so an occurrence lies within the leading cells.
IndexOf(buffer, pattern) ==
    LET n == Len(pattern)
        hits == {i \in 0..(Len(buffer.data) - n) :
                    \A k \in 1..n : CellAt(buffer, i + k - 1)[1] = pattern[k]}
    IN  IF hits = {} THEN -1 ELSE CHOOSE i \in hits : \A j \in hits : i <= j

\* buffer.subarray(0, end).toString(): UTF-8 decoding; an ASCII byte decodes
\* to the character of the same code, any other byte of the streams modelled
\* here would be a lone one and decodes to U+FFFD.
ToString(buffer, end) ==
    [i \in 1..end |-> IF buffer.data[i][1] < 128 THEN buffer.data[i][1] ELSE 65533]

---------------------------------------------------------------------------
\* CONTENTLENGTH_HEADER_EXP (index.ts:16): the literal "Content-Length:", one
\* \s, the group length of any number of \d (greedy), an optional \s.

\* \s, for the characters below U+0100.
IsSpace(c) == c \in {9, 10, 11, 12, 13, 32, 160}

\* \d
IsDigit(c) == c \in 48..57

\* The characters of \d* matched greedily from index from (1-based) on.
DigitRun(text, from) ==
    LET stops == {j \in from..Len(text) : ~IsDigit(text[j])}
        end == IF stops = {} THEN Len(text) + 1 ELSE CHOOSE j \in stops : \A k \in stops : j <= k
    IN  SubSeq(text, from, end - 1)

\* CONTENTLENGTH_HEADER_EXP.exec(headers)?.groups["length"]: the leftmost
\* match's length group, or no match (the ?. then yields undefined).
ExecContentLength(headers) ==
    LET n == Len(CONTENTLENGTH_LITERAL)
        starts == {i \in 1..(Len(headers) - n) :
                     /\ SubSeq(headers, i, i + n - 1) = CONTENTLENGTH_LITERAL
                     /\ IsSpace(headers[i + n])}
    IN  IF starts = {} THEN [matched |-> FALSE, length |-> <<>>]
        ELSE LET i == CHOOSE s \in starts : \A t \in starts : s <= t
             IN  [matched |-> TRUE, length |-> DigitRun(headers, i + n + 1)]

RECURSIVE DecimalValue(_)
\* The value of a string of decimal digits; Number("") is 0.
DecimalValue(digits) ==
    IF digits = <<>> THEN 0
    ELSE 10 * DecimalValue(SubSeq(digits, 1, Len(digits) - 1)) + (digits[Len(digits)] - 48)

\* Number(...) taking undefined for 0.
NumberOrZero(m) == IF m.matched THEN DecimalValue(m.length) ELSE 0

\* Number(...) of the exec result: NaN for undefined.
NumberOf(m) == IF m.matched THEN DecimalValue(m.length) ELSE NaN

IsNaN(x) == x = NaN

---------------------------------------------------------------------------
(* The input: the bytes that arrive on stdin.                              *)

RECURSIVE Decimal(_)
\* `${n}`: the decimal digits of a non-negative integer.
Decimal(n) == IF n < 10 THEN <<48 + n>> ELSE Decimal(n \div 10) \o <<48 + (n % 10)>>

\* A message on the wire: header text, the separator, the body.
WireOf(m) == m.header \o BODY_SPLIT_CHARS \o m.body

\* "Content-Length: <n>" for a body of n bytes, then the body.
Framed(body) == [header |-> CONTENTLENGTH_LITERAL \o <<32>> \o Decimal(Len(body)), body |-> body]

\* A message is well formed when its header block is the Content-Length field
\* giving the length of its body, possibly after other header lines.
WellFormed(m) ==
    \E k \in 0..Len(m.header) :
        /\ SubSeq(m.header, k + 1, Len(m.header)) = Framed(m.body).header
        /\ k > 0 => (k >= 2 /\ m.header[k - 1] = 13 /\ m.header[k] = 10)

\* ""  "a"  "hi": bodies of the messages.
BodyEmpty == <<>>

BodyA == <<97>>

BodyHi == <<104, 105>>

\* "hello"
BodyHello == <<104, 101, 108, 108, 111>>

\* "X: 1": a header block with no Content-Length field.
MsgNoField == [header |-> <<88, 58, 32, 49>>, body |-> <<>>]

\* "Content-Length: x": the field with a value that is not a number.
MsgNotNumber == [header |-> CONTENTLENGTH_LITERAL \o <<32, 120>>, body |-> <<>>]

\* "Content-Length: ": the field with an empty value.
MsgNoValue == [header |-> CONTENTLENGTH_LITERAL \o <<32>>, body |-> <<>>]

\* "A: b\r\nContent-Length: 1" and the body "a": another header line first.
MsgOtherHeader == [header |-> <<65, 58, 32, 98, 13, 10>> \o Framed(BodyA).header, body |-> BodyA]

\* The streams fed to a freshly started adapter: sequences of messages.
Streams ==
    { <<Framed(BodyEmpty), Framed(BodyEmpty)>>,
      <<Framed(BodyHi), Framed(BodyA)>>,
      <<Framed(BodyA)>>,
      <<MsgNoField>>,
      <<MsgNotNumber>>,
      <<MsgNoValue>>,
      <<Framed(BodyA), MsgNoField>>,
      <<MsgOtherHeader>>,
      <<Framed(BodyHello)>> }

RECURSIVE WireOfAll(_)
\* The concatenated wire bytes of a sequence of messages.
WireOfAll(ms) == IF ms = <<>> THEN <<>> ELSE WireOf(Head(ms)) \o WireOfAll(Tail(ms))

---------------------------------------------------------------------------
VARIABLES
    stream,                     \* the messages the peer writes to stdin (fixed)
    wire,                       \* their bytes on the wire (fixed)
    pos,                        \* how many of these bytes have been delivered
    requestBuffer,              \* this.requestBuffer
    requestBufferOffset,        \* this.requestBufferOffset
    requestMessageBufferQueue,  \* this.requestMessageBufferQueue
    immediates,                 \* setImmediate callbacks scheduled and not yet run
    sent,                       \* the arguments of server.sendRequest, in call order
    outcome,                    \* how the last onReceiveRequestBuffer call ended
    lastCall,                   \* history: what the last call received and did
    extracted,                  \* history: every message extracted, in order
    promises,                   \* the promise of each server.sendRequest call, in call order
    uncaught,                   \* the errors that left a callback with nothing to catch them
    serverStart,                \* the promise of server.start() that start() awaits
    paused,                     \* those of process.stdin and process.stdout that have been paused
    mainCaught,                 \* the errors that main's catch has reported
    stopped,                    \* stop() has been called
    unset,                      \* the fields of the adapter that are still null
    listening,                  \* the 'data' listener is attached to process.stdin
    importing,                  \* the promise of the import() that start() awaits
    serverStops,                \* the number of server.stop() calls
    exited,                     \* process.exit has been called
    atStop,                     \* history: the outstanding work when stop() was called
    stdout,                     \* the bytes of each process.stdout.write, in call order
    responses                   \* history: the bodies handed to onResponseBuffer, in order

vars == <<stream, wire, pos, requestBuffer, requestBufferOffset, requestMessageBufferQueue,
          immediates, sent, outcome, lastCall, extracted,
          promises, uncaught, serverStart, paused, mainCaught, stopped,
          unset, listening, importing, serverStops, exited, atStop, stdout, responses>>

\* The variables of the framer and of the request queue.
framerVars == <<pos, requestBuffer, requestBufferOffset, requestMessageBufferQueue,
                immediates, sent, outcome, lastCall, extracted, promises>>

\* The variables of the process around them.
\* The variables of the life of the adapter: its start and its end.
lifeVars == <<unset, listening, importing, serverStops, exited, atStop>>

processVars == <<serverStart, paused, mainCaught, stopped, lifeVars>>

\* The variables of the outbound side.
outboundVars == <<stdout, responses>>

\* The number of wire bytes up to the end of the k-th message of the stream.
EndOfMessage(k) == Len(WireOfAll(SubSeq(stream, 1, k)))

\* What queue.shift() returns on an empty array.
Undefined == [id |-> 0, byteLength |-> 0, data |-> <<>>]

\* The bytes of a queue entry.
EntryBytes(entry) == [i \in 1..entry.byteLength |-> IF i <= Len(entry.data) THEN entry.data[i][1] ELSE 0]

\* The elements of a sequence.
Range(seq) == {seq[i] : i \in DOMAIN seq}

\* stop() has not been called.
NoStop == [immediates |-> 0, sent |-> 0, pending |-> {}]

NoCall == [from |-> 0, to |-> 0, at |-> 0, valid |-> <<>>, stale |-> <<>>,
           enqueued |-> 0, scheduled |-> 0]

\* index.ts:40-47: the state start() leaves when it has attached the 'data'
\* listener and awaits server.start(), before a peer that will write one of
\* the given streams.
InitOn(streams) ==
    /\ stream \in streams
    /\ wire = WireOfAll(stream)
    /\ pos = 0
    /\ requestBuffer = Alloc(BUFFER_CHUNK_SIZEBYTES)
    /\ requestBufferOffset = 0
    /\ requestMessageBufferQueue = <<>>
    /\ immediates = 0
    /\ sent = <<>>
    /\ outcome = "none"
    /\ lastCall = NoCall
    /\ extracted = <<>>
    /\ promises = <<>>
    /\ uncaught = {}
    /\ serverStart = "pending"
    /\ paused = {}
    /\ mainCaught = {}
    /\ stopped = FALSE
    /\ unset = {}
    /\ listening = TRUE
    /\ importing = "resolved"
    /\ serverStops = 0
    /\ exited = FALSE
    /\ atStop = NoStop
    /\ stdout = <<>>
    /\ responses = <<>>

Init == InitOn(Streams)

\* The next n bytes of stdin as the Buffer a pipe's 'data' event carries: a
\* buffer of its own, so its byteOffset is 0.
StdinChunk(n) ==
    [byteLength |-> n, byteOffset |-> 0,
     data |-> [i \in 1..n |-> <<wire[pos + i], pos + i>>] \o <<>>]

\* The reallocation by one BUFFER_CHUNK_SIZEBYTES, whatever the chunk.
GrownByOneChunk(buffer, offset, chunk) ==
    IF offset + chunk.byteLength > buffer.byteLength
    THEN Concat(buffer, Alloc(BUFFER_CHUNK_SIZEBYTES))
    ELSE buffer

\* index.ts:75-78: the request buffer after the reallocation, if one is needed.
Grown(buffer, offset, chunk) ==
    IF offset + chunk.byteLength > buffer.byteLength
    THEN Concat(buffer, Alloc(BUFFER_CHUNK_SIZEBYTES * ((chunk.byteLength \div BUFFER_CHUNK_SIZEBYTES) + 1)))
    ELSE buffer

\* The copy of index.ts:99 begun one byte early, within the separator.
RequestMessageBufferEarly(buffer, splitOffset, contentLength, minRequiredOffset) ==
    Copy(buffer, Alloc(contentLength), 0, splitOffset + Len(BODY_SPLIT_CHARS) - 1, minRequiredOffset).target

\* index.ts:97-99: the request message buffer pulled out of the request buffer.
RequestMessageBuffer(buffer, splitOffset, contentLength, minRequiredOffset) ==
    Copy(buffer, Alloc(contentLength), 0, splitOffset + Len(BODY_SPLIT_CHARS), minRequiredOffset).target

\* index.ts:100: the request buffer after the message has been pulled out.
Compacted(buffer, minRequiredOffset) ==
    Copy(buffer, buffer, 0, minRequiredOffset, buffer.byteLength).target

\* The length of the remainder, with the operands the wrong way round.
OffsetAfterExtractSwapped(offset, minRequiredOffset) == minRequiredOffset - offset

\* index.ts:101: the offset at which the next chunk is written.
OffsetAfterExtract(offset, minRequiredOffset) == 0

\* One Buffer used for every body: the entries of the queue are that Buffer.
PushShared(queue, entry) ==
    [i \in DOMAIN queue |-> [queue[i] EXCEPT !.byteLength = entry.byteLength,
                                             !.data = entry.data]] \o <<entry>>

\* queue.unshift(entry) in the place of queue.push(entry).
PushFront(queue, entry) == <<entry>> \o queue

\* index.ts:103: queue.push(entry).
Push(queue, entry) == Append(queue, entry)

\* Two drains scheduled for one body.
SetImmediateTwice(pending) == pending + 2

\* A drain scheduled only when none is pending.
SetImmediateIfIdle(pending) == IF pending > 0 THEN pending ELSE 1

\* index.ts:105: setImmediate(...): one more callback is pending.
SetImmediate(pending) == pending + 1

\* queue.splice(0, 2)[0] in the place of queue.shift(): the head is returned
\* and two entries are removed.
ShiftTwo(queue) ==
    IF queue = <<>> THEN [entry |-> Undefined, rest |-> <<>>]
    ELSE [entry |-> Head(queue), rest |-> SubSeq(queue, 3, Len(queue))]

\* queue.pop() in the place of queue.shift().
Pop(queue) ==
    IF queue = <<>> THEN [entry |-> Undefined, rest |-> <<>>]
    ELSE [entry |-> queue[Len(queue)], rest |-> SubSeq(queue, 1, Len(queue) - 1)]

\* index.ts:112: queue.shift(): the entry removed and the queue left.
Shift(queue) ==
    IF queue = <<>> THEN [entry |-> Undefined, rest |-> <<>>]
    ELSE [entry |-> Head(queue), rest |-> Tail(queue)]

\* The body taken for complete as soon as the separator has arrived.
MinRequiredOffsetNoBody(splitOffset, contentLength) == splitOffset + Len(BODY_SPLIT_CHARS)

\* index.ts:91: the offset the request buffer must have reached for the
\* message to be complete.
MinRequiredOffset(splitOffset, contentLength) == splitOffset + Len(BODY_SPLIT_CHARS) + contentLength

\* The test of index.ts:93 with <= in the place of <.
StillReadingOrJustRead(offset, minRequiredOffset) == offset <= minRequiredOffset

\* index.ts:93: the body has not yet arrived in full.
StillReading(offset, minRequiredOffset) == offset < minRequiredOffset

\* this.sendRequestMessageBuffer() called on the spot in the place of
\* setImmediate(...).
DrainNow(pendingCallbacks, queue, sentSoFar, made) ==
    [immediates |-> pendingCallbacks,
     queue |-> Shift(queue).rest,
     sent |-> Append(sentSoFar, Shift(queue).entry),
     promises |-> Append(made, "pending")]

\* index.ts:105: setImmediate(this.sendRequestMessageBuffer.bind(this)): the
\* callback is left for a later turn of the event loop; the call itself takes
\* nothing from the queue and hands nothing to the server.
ScheduleDrain(pendingCallbacks, queue, sentSoFar, made) ==
    [immediates |-> SetImmediate(pendingCallbacks),
     queue |-> queue,
     sent |-> sentSoFar,
     promises |-> made]

\* index.ts:74-106: one call of the 'data' listener.  (\E x \in {e} names the
\* value of e.)  An error the listener throws has nothing to catch it: the
\* listener is called by the stream's emit, from the event loop.
OnReceiveRequestBuffer(chunk) ==
    \E grown \in {Grown(requestBuffer, requestBufferOffset, chunk)} :
    \E cp \in {Copy(chunk, grown, requestBufferOffset, chunk.byteOffset, chunk.byteLength)} :
    \E buffer \in {cp.target} :
    \E offset \in {requestBufferOffset + cp.copied} :
    \E splitOffset \in {IndexOf(buffer, BODY_SPLIT_CHARS)} :
    \E headers \in {IF splitOffset < 0 THEN <<>> ELSE ToString(buffer, splitOffset)} :
    \E contentLength \in {NumberOf(ExecContentLength(headers))} :
    \E minRequiredOffset \in {MinRequiredOffset(splitOffset, contentLength)} :
    \E call \in {[from |-> pos, to |-> pos + chunk.byteLength, at |-> requestBufferOffset,
                  valid |-> BytesOf(buffer, 0, offset),
                  stale |-> BytesOf(buffer, offset, Len(buffer.data)),
                  enqueued |-> 0, scheduled |-> 0]} :
        /\ pos' = pos + chunk.byteLength
        /\ UNCHANGED <<stream, wire, processVars, outboundVars>>
        /\ IF cp.threw
           THEN /\ requestBuffer' = grown
                /\ outcome' = "rangeError"
                /\ uncaught' = uncaught \cup {"rangeError"}
                /\ lastCall' = [call EXCEPT !.valid = BytesOf(grown, 0, requestBufferOffset),
                                             !.stale = BytesOf(grown, requestBufferOffset, Len(grown.data))]
                /\ UNCHANGED <<requestBufferOffset, requestMessageBufferQueue, immediates,
                               sent, promises, extracted>>
           ELSE IF splitOffset < 0
           THEN /\ requestBuffer' = buffer
                /\ requestBufferOffset' = offset
                /\ outcome' = "needHeaders"
                /\ lastCall' = call
                /\ UNCHANGED <<requestMessageBufferQueue, immediates, sent, promises,
                               extracted, uncaught>>
           ELSE IF IsNaN(contentLength)
           THEN /\ requestBuffer' = buffer
                /\ requestBufferOffset' = offset
                /\ outcome' = "malformed"
                /\ uncaught' = uncaught \cup {"malformed"}
                /\ lastCall' = call
                /\ UNCHANGED <<requestMessageBufferQueue, immediates, sent, promises, extracted>>
           ELSE IF StillReading(offset, minRequiredOffset)
           THEN /\ requestBuffer' = buffer
                /\ requestBufferOffset' = offset
                /\ outcome' = "needBody"
                /\ lastCall' = call
                /\ UNCHANGED <<requestMessageBufferQueue, immediates, sent, promises,
                               extracted, uncaught>>
           ELSE \E message \in {RequestMessageBuffer(buffer, splitOffset, contentLength, minRequiredOffset)} :
                \E entry \in {[id |-> Len(extracted) + 1, byteLength |-> message.byteLength,
                               data |-> message.data]} :
                \E drain \in {ScheduleDrain(immediates, Push(requestMessageBufferQueue, entry),
                                            sent, promises)} :
                    /\ requestBuffer' = Compacted(buffer, minRequiredOffset)
                    /\ requestBufferOffset' = OffsetAfterExtract(offset, minRequiredOffset)
                    /\ requestMessageBufferQueue' = drain.queue
                    /\ immediates' = drain.immediates
                    /\ sent' = drain.sent
                    /\ promises' = drain.promises
                    /\ outcome' = "extracted"
                    /\ lastCall' = [call EXCEPT !.enqueued = 1, !.scheduled = 1]
                    /\ UNCHANGED uncaught
                    /\ extracted' = Append(extracted,
                           [id |-> entry.id,
                            body |-> BytesOf(message, 0, message.byteLength),
                            headers |-> headers,
                            contentLength |-> contentLength,
                            splitAt |-> TagsOf(buffer, splitOffset, splitOffset + Len(BODY_SPLIT_CHARS)),
                            bodyAt |-> TagsOf(message, 0, message.byteLength),
                            restAt |-> TagsOf(buffer, minRequiredOffset, offset)])

\* A callback that runs only when no earlier submission is still pending.
RunnableWhenSettled(pendingCallbacks, made) ==
    pendingCallbacks > 0 /\ \A j \in DOMAIN made : made[j] # "pending"

\* index.ts:105, 111-112: a callback that setImmediate has scheduled runs in
\* its turn, whatever has become of the promises of earlier submissions.
Runnable(pendingCallbacks, made) == pendingCallbacks > 0

\* index.ts:111-113: one setImmediate callback, up to its await: the head of
\* the queue goes to server.sendRequest, whose promise is pending.
SendRequestMessageBuffer ==
    /\ Runnable(immediates, promises)
    /\ immediates' = immediates - 1
    /\ requestMessageBufferQueue' = Shift(requestMessageBufferQueue).rest
    /\ sent' = Append(sent, Shift(requestMessageBufferQueue).entry)
    /\ promises' = Append(promises, "pending")
    /\ UNCHANGED <<stream, wire, pos, requestBuffer, requestBufferOffset, outcome, lastCall,
                   extracted, uncaught, processVars, outboundVars>>

\* stdin delivers the next bytes, in a chunk of any size.
Receive ==
    \E n \in 0..Min(MaxChunkLen, Len(wire) - pos) :
        \E chunk \in {StdinChunk(n)} : OnReceiveRequestBuffer(chunk)

Next == Receive \/ SendRequestMessageBuffer

Spec == Init /\ [][Next]_vars

\* The event loop runs every callback that setImmediate has scheduled.
LiveSpec == Spec /\ WF_vars(SendRequestMessageBuffer)

---------------------------------------------------------------------------
(* Chunks that are views.  A Buffer may be a view of a larger ArrayBuffer  *)
(* (a slice of an allocation pool, a subarray): its byteOffset is then the *)
(* place of its first byte in that store, and not 0.  Here the reader      *)
(* carves its chunks one after the other out of one store, so that the     *)
(* byteOffset of a chunk is the number of bytes delivered before it.       *)

\* The next n bytes of stdin as a Buffer that is a view of the reader's store.
ViewChunk(n) ==
    [byteLength |-> n, byteOffset |-> pos,
     data |-> [i \in 1..n |-> <<wire[pos + i], pos + i>>] \o <<>>]

\* stdin delivers the next bytes, in a chunk of any size that is a view.
ReceiveView ==
    \E n \in 0..Min(MaxChunkLen, Len(wire) - pos) :
        \E chunk \in {ViewChunk(n)} : OnReceiveRequestBuffer(chunk)

ViewNext == ReceiveView \/ SendRequestMessageBuffer

\* The stream fed to the adapter whose stdin delivers views.
ViewInit == Init /\ stream = <<Framed(BodyA)>>

ViewSpec == ViewInit /\ [][ViewNext]_vars

---------------------------------------------------------------------------
(* Streams that go on after a message without a Content-Length.           *)

\* "X: 1" "" then a well-formed message; "Content-Length:2" (no space after
\* the colon) "hi", then a well-formed message; a well-formed message first.
MalformedFirstStreams ==
    { <<MsgNoField, Framed(BodyA)>>,
      <<Framed(BodyA), MsgNoField>>,
      <<[header |-> CONTENTLENGTH_LITERAL \o <<50>>, body |-> BodyHi], Framed(BodyEmpty)>> }

MalformedFirstSpec == InitOn(MalformedFirstStreams) /\ [][Next]_vars

---------------------------------------------------------------------------
(* The process around the framer: the event loop, the promises of the      *)
(* server, and main.                                                       *)

\* main registers no handler for an uncaught exception or an unhandled
\* rejection: Node ends the process at the first error that nothing catches;
\* process.exit ends it as well.
Running == uncaught = {} /\ ~exited

\* index.ts:74-80 on an adapter whose fields are null: the listener reads
\* this.requestBuffer.byteLength and throws a TypeError.
ReceiveOnNull ==
    /\ uncaught' = uncaught \cup {"typeError"}
    /\ UNCHANGED <<stream, wire, framerVars, processVars, outboundVars>>

\* index.ts:45, 51: a 'data' event of process.stdin, which flows from the
\* moment the listener is attached until start() pauses it.
StdinData ==
    /\ Running /\ listening /\ "stdin" \notin paused
    /\ IF unset # {} THEN ReceiveOnNull ELSE Receive

\* The event loop of the running process runs a setImmediate callback.
RunImmediate == Running /\ SendRequestMessageBuffer

\* index.ts:111-113 after the await: the promise of a server.sendRequest call
\* settles.  sendRequestMessageBuffer has no catch, and the promise it returns
\* goes to setImmediate, which drops it: a rejection is an unhandled rejection.
SendRequestSettles ==
    /\ Running
    /\ \E j \in DOMAIN promises : \E how \in {"resolved", "rejected"} :
          /\ promises[j] = "pending"
          /\ promises' = [promises EXCEPT ![j] = how]
          /\ uncaught' = IF how = "rejected" THEN uncaught \cup {"unhandledRejection"}
                         ELSE uncaught
    /\ UNCHANGED <<stream, wire, pos, requestBuffer, requestBufferOffset,
                   requestMessageBufferQueue, immediates, sent, outcome, lastCall, extracted,
                   processVars, outboundVars>>

\* A start() without the finally: stdin and stdout are paused after the await,
\* which a rejection never passes.
ServerStartSettlesNoFinally ==
    /\ Running
    /\ serverStart = "pending"
    /\ \E how \in {"resolved", "rejected"} :
          /\ serverStart' = how
          /\ mainCaught' = IF how = "rejected" THEN mainCaught \cup {"serverStart"}
                           ELSE mainCaught
          /\ paused' = IF how = "resolved" THEN paused \cup {"stdin", "stdout"} ELSE paused
    /\ UNCHANGED <<stream, wire, framerVars, uncaught, stopped, lifeVars, outboundVars>>

\* index.ts:47-53 and main: the promise of server.start() settles, the finally
\* pauses stdin and stdout, start() settles the same way, and main's catch
\* reports a rejection.
ServerStartSettles ==
    /\ Running
    /\ serverStart = "pending"
    /\ \E how \in {"resolved", "rejected"} :
          /\ serverStart' = how
          /\ mainCaught' = IF how = "rejected" THEN mainCaught \cup {"serverStart"}
                           ELSE mainCaught
    /\ paused' = paused \cup {"stdin", "stdout"}
    /\ UNCHANGED <<stream, wire, framerVars, uncaught, stopped, lifeVars, outboundVars>>

ProcessNext == StdinData \/ RunImmediate \/ SendRequestSettles \/ ServerStartSettles

ProcessSpec == Init /\ [][ProcessNext]_vars

\* The event loop runs every callback that setImmediate has scheduled; nothing
\* obliges the server to settle a promise.
ProcessLiveSpec == ProcessSpec /\ WF_vars(RunImmediate)

---------------------------------------------------------------------------
(* stop() and the SIGINT handler of main, which calls it.                  *)

\* The work that is outstanding: the callbacks scheduled, the submissions
\* made, and those of them whose promise is pending.
Outstanding ==
    [immediates |-> immediates, sent |-> Len(sent),
     pending |-> {j \in DOMAIN promises : promises[j] = "pending"}]

\* stop() that also empties the queue, so that the callbacks find nothing.
StopAndClear ==
    /\ Running
    /\ ~stopped
    /\ stopped' = TRUE
    /\ atStop' = Outstanding
    /\ serverStops' = serverStops + 1
    /\ requestMessageBufferQueue' = <<>>
    /\ UNCHANGED <<stream, wire, pos, requestBuffer, requestBufferOffset, immediates, sent,
                   outcome, lastCall, extracted, promises, uncaught, serverStart, paused,
                   mainCaught, unset, listening, importing, exited, outboundVars>>

\* stop() without the test of this.server, on a server that is always there.
StopWithoutTest ==
    /\ Running
    /\ ~stopped
    /\ stopped' = TRUE
    /\ atStop' = Outstanding
    /\ serverStops' = serverStops + 1
    /\ UNCHANGED <<stream, wire, framerVars, uncaught, serverStart, paused, mainCaught,
                   unset, listening, importing, exited, outboundVars>>

\* index.ts:59-63, called by main's SIGINT handler at the first SIGINT.
\* Without a server, stop() throws, and the handler has nothing to catch the
\* error.  With one, it calls server.stop() and nothing else: the fields of
\* the adapter, the listener on stdin and the scheduled callbacks stay as they
\* are.  When the server settles the promise of its start() after that is the
\* server's affair: ServerStartSettles is enabled from here on as before.
Stop ==
    /\ Running
    /\ ~stopped
    /\ stopped' = TRUE
    /\ atStop' = Outstanding
    /\ IF "server" \in unset
       THEN /\ uncaught' = uncaught \cup {"notStarted"}
            /\ UNCHANGED serverStops
       ELSE /\ serverStops' = serverStops + 1
            /\ UNCHANGED uncaught
    /\ UNCHANGED <<stream, wire, framerVars, serverStart, paused, mainCaught,
                   unset, listening, importing, exited, outboundVars>>

\* main's SIGINT handler at a later SIGINT: process.exit(-1).
SigintAgain ==
    /\ Running
    /\ stopped
    /\ exited' = TRUE
    /\ UNCHANGED <<stream, wire, framerVars, uncaught, serverStart, paused, mainCaught,
                   stopped, unset, listening, importing, serverStops, atStop, outboundVars>>

StopNext == ProcessNext \/ Stop \/ SigintAgain

StopSpec == Init /\ [][StopNext]_vars

\* The streams of two messages with which work is outstanding at stop().
StopStreams == { <<Framed(BodyA), Framed(BodyEmpty)>>, <<Framed(BodyEmpty), MsgNoField>> }

\* The event loop runs every callback that setImmediate has scheduled, as long
\* as the process lives; nothing obliges the server to settle a promise.
StopLiveSpec == InitOn(StopStreams) /\ [][StopNext]_vars /\ WF_vars(RunImmediate)

---------------------------------------------------------------------------
(* The start of the adapter.  main creates the adapter, installs its       *)
(* SIGINT handler and calls start(), which runs up to its first await, all *)
(* in one turn of the event loop.                                          *)

\* index.ts:24-27: the fields of the adapter, which are null at construction.
Fields == {"server", "requestBuffer", "requestBufferOffset", "requestMessageBufferQueue"}

\* What the variable of a field holds while the field is null.
NoBuffer == Alloc(0)

NoOffset == NaN

\* The stream the peer writes to the adapter that starts.
StartupStreams == { <<Framed(BodyA)>>, <<MsgNoField>> }

\* index.ts:24-27, 37-38 and main: the adapter is constructed, the SIGINT
\* handler is installed, and start() awaits the import of the module.
StartupInit ==
    /\ stream \in StartupStreams
    /\ wire = WireOfAll(stream)
    /\ pos = 0
    /\ requestBuffer = NoBuffer
    /\ requestBufferOffset = NoOffset
    /\ requestMessageBufferQueue = <<>>
    /\ immediates = 0
    /\ sent = <<>>
    /\ outcome = "none"
    /\ lastCall = NoCall
    /\ extracted = <<>>
    /\ promises = <<>>
    /\ uncaught = {}
    /\ serverStart = "none"
    /\ paused = {}
    /\ mainCaught = {}
    /\ stopped = FALSE
    /\ unset = Fields
    /\ listening = FALSE
    /\ importing = "pending"
    /\ serverStops = 0
    /\ exited = FALSE
    /\ atStop = NoStop
    /\ stdout = <<>>
    /\ responses = <<>>

\* start() with lines 41-43 moved behind the await of server.start(): the
\* listener is attached while the buffer, the offset and the queue are null.
ImportSettlesFieldsLate ==
    /\ Running
    /\ importing = "pending"
    /\ importing' = "resolved"
    /\ unset' = Fields \ {"server"}
    /\ listening' = TRUE
    /\ serverStart' = "pending"
    /\ UNCHANGED <<stream, wire, framerVars, uncaught, paused, mainCaught, stopped,
                   serverStops, exited, atStop, outboundVars>>

\* index.ts:38-48 and main: the import settles.  Fulfilled, start() creates
\* the server, the buffer, the offset and the queue, attaches the 'data'
\* listener and calls server.start(), whose promise it awaits.  Rejected,
\* start() rejects at line 38 and main's catch reports it.
ImportSettles ==
    /\ Running
    /\ importing = "pending"
    /\ \E how \in {"resolved", "rejected"} :
          /\ importing' = how
          /\ IF how = "resolved"
             THEN /\ unset' = {}
                  /\ requestBuffer' = Alloc(BUFFER_CHUNK_SIZEBYTES)
                  /\ requestBufferOffset' = 0
                  /\ requestMessageBufferQueue' = <<>>
                  /\ listening' = TRUE
                  /\ serverStart' = "pending"
                  /\ UNCHANGED mainCaught
             ELSE /\ mainCaught' = mainCaught \cup {"import"}
                  /\ UNCHANGED <<unset, requestBuffer, requestBufferOffset,
                                 requestMessageBufferQueue, listening, serverStart>>
    /\ UNCHANGED <<stream, wire, pos, immediates, sent, outcome, lastCall, extracted, promises,
                   uncaught, paused, stopped, serverStops, exited, atStop, outboundVars>>

StartupNext == ImportSettles \/ StopNext

StartupSpec == StartupInit /\ [][StartupNext]_vars

\* The import settles, and the event loop runs the callbacks scheduled.
StartupLiveSpec == StartupSpec /\ WF_vars(ImportSettles) /\ WF_vars(RunImmediate)

---------------------------------------------------------------------------
(* The outbound side: onResponseBuffer.                                    *)

\* The most responses the server produces in the model.
MaxResponses == 2

\* "{}"  "e" with an acute accent in UTF-8  a lone byte 0xFF  "": the response
\* bodies the server hands to its callback.
ResponseBodies == { <<123, 125>>, <<195, 169>>, <<255>>, <<>> }

RECURSIVE Utf8Decode(_)
\* `${message}`: message.toString(), the UTF-8 decoding of the bytes into
\* characters.  A byte that begins no well-formed sequence decodes to U+FFFD.
\* (Sequences of one and two bytes only: no body of the model holds a byte of
\* 0xE0 to 0xF4.)
Utf8Decode(bytes) ==
    IF bytes = <<>> THEN <<>>
    ELSE IF bytes[1] < 128 THEN <<bytes[1]>> \o Utf8Decode(Tail(bytes))
    ELSE IF bytes[1] \in 194..223 /\ Len(bytes) >= 2 /\ bytes[2] \in 128..191
    THEN <<(bytes[1] - 192) * 64 + (bytes[2] - 128)>> \o Utf8Decode(SubSeq(bytes, 3, Len(bytes)))
    ELSE <<65533>> \o Utf8Decode(Tail(bytes))

RECURSIVE Utf8Encode(_)
\* process.stdout.write(string): the UTF-8 encoding of the characters (of the
\* Basic Multilingual Plane).
Utf8Encode(chars) ==
    IF chars = <<>> THEN <<>>
    ELSE LET c == chars[1]
             first == IF c < 128 THEN <<c>>
                      ELSE IF c < 2048 THEN <<192 + (c \div 64), 128 + (c % 64)>>
                      ELSE <<224 + (c \div 4096), 128 + ((c \div 64) % 64), 128 + (c % 64)>>
         IN  first \o Utf8Encode(Tail(chars))

\* index.ts:122: "Content-Length: " as written in the template literal.
CONTENTLENGTH_PREFIX == CONTENTLENGTH_LITERAL \o <<32>>

\* index.ts:122: the template literal, a string.
TemplateLiteral(message) ==
    CONTENTLENGTH_PREFIX \o Decimal(Len(message)) \o BODY_SPLIT_CHARS \o Utf8Decode(message)

\* The frame put together in the request buffer, from its start.
OnResponseBufferInRequestBuffer(message) ==
    /\ stdout' = Append(stdout, Utf8Encode(TemplateLiteral(message)))
    /\ responses' = Append(responses, message)
    /\ requestBufferOffset' = 0
    /\ UNCHANGED <<stream, wire, pos, requestBuffer, requestMessageBufferQueue, immediates, sent,
                   outcome, lastCall, extracted, promises, uncaught, processVars>>

\* index.ts:121-123: the server hands a response body to onResponseBuffer.
OnResponseBuffer(message) ==
    /\ stdout' = Append(stdout, Utf8Encode(TemplateLiteral(message)))
    /\ responses' = Append(responses, message)
    /\ UNCHANGED <<stream, wire, framerVars, uncaught, processVars>>

\* index.ts:40: the server calls the callback it was constructed with.
ServerResponds ==
    /\ Len(responses) < MaxResponses
    /\ \E message \in ResponseBodies : OnResponseBuffer(message)

EncodeNext == ServerResponds

EncodeSpec == Init /\ [][EncodeNext]_vars

\* Responses written while a message arrives on stdin and is handed over.
DuplexNext == Receive \/ SendRequestMessageBuffer \/ ServerResponds

DuplexSpec == InitOn({<<Framed(BodyA)>>}) /\ [][DuplexNext]_vars

---------------------------------------------------------------------------
(* The two directions together: a body that the framer extracted is given  *)
(* to the outbound encoder.                                                *)

\* "e" with an acute accent, in UTF-8.
BodyAccent == <<195, 169>>

\* The lone byte 0xFF, which is not UTF-8.
BodyNotUtf8 == <<255>>

\* Single messages whose header block is the Content-Length field alone.
RoundTripStreams ==
    { <<Framed(body)>> : body \in {BodyEmpty, BodyA, BodyHello, BodyAccent, BodyNotUtf8} }

\* index.ts:103, 121-123: the bytes of a body that went on the queue come
\* back as a response body (the server echoes the request).
EncodeExtracted ==
    /\ Len(responses) < MaxResponses
    /\ \E entry \in Range(sent \o requestMessageBufferQueue) : OnResponseBuffer(EntryBytes(entry))

RoundTripNext == Receive \/ SendRequestMessageBuffer \/ EncodeExtracted

RoundTripSpec == InitOn(RoundTripStreams) /\ [][RoundTripNext]_vars

---------------------------------------------------------------------------
(* Messages with header lines other than Content-Length.                   *)

\* "Content-Length: 1\r\nA: b" and the body "a": another header line after.
MsgHeaderAfter == [header |-> Framed(BodyA).header \o <<13, 10, 65, 58, 32, 98>>, body |-> BodyA]

\* "X-Content-Length: 0\r\nContent-Length: 1" and the body "a": another header
\* line, whose name ends like the field's, before.
MsgNameAlike ==
    [header |-> <<88, 45>> \o CONTENTLENGTH_LITERAL \o <<32, 48, 13, 10>> \o Framed(BodyA).header,
     body |-> BodyA]

HeaderStreams == { <<MsgOtherHeader>>, <<MsgHeaderAfter>>, <<MsgNameAlike>> }

HeaderSpec == InitOn(HeaderStreams) /\ [][Next]_vars

---------------------------------------------------------------------------
(* Messages that do not fit the request buffer as it is allocated.         *)

\* The length of the long body.
BigBodyLen == 4200

\* A body of BigBodyLen bytes "a".
BigBody == [i \in 1..BigBodyLen |-> 97]

GrowStreams == { <<Framed(BodyA), Framed(BigBody)>>, <<Framed(BigBody), Framed(BodyA)>> }

\* The sizes of the chunks in which stdin delivers these streams: nothing, a
\* part of a read, one and two times BUFFER_CHUNK_SIZEBYTES.
GrowChunkLens == {0, 500, BUFFER_CHUNK_SIZEBYTES, 2 * BUFFER_CHUNK_SIZEBYTES}

\* stdin delivers the next bytes in a chunk of one of these sizes, or up to
\* the end of a message (a whole write of the peer).
ReceiveLong ==
    \E n \in GrowChunkLens \cup {EndOfMessage(k) - pos : k \in DOMAIN stream} :
        /\ 0 <= n /\ n <= Len(wire) - pos
        /\ \E chunk \in {StdinChunk(n)} : OnReceiveRequestBuffer(chunk)

GrowNext == ReceiveLong \/ SendRequestMessageBuffer

GrowSpec == InitOn(GrowStreams) /\ [][GrowNext]_vars

---------------------------------------------------------------------------
(* What the claims speak of, read off the input stream and the histories.  *)

\* The most messages a stream of Streams holds.
MaxMessages == 2

AllWellFormed == \A i \in DOMAIN stream : WellFormed(stream[i])

\* The bodies of the stream's messages, in order.
BodiesOf(ms) == [i \in DOMAIN ms |-> ms[i].body]

\* The offset (0-based) of the first separator in a byte sequence, -1 if none.
FirstSplit(bytes) ==
    LET hits == {i \in 0..(Len(bytes) - 4) : SubSeq(bytes, i + 1, i + 4) = BODY_SPLIT_CHARS}
    IN  IF hits = {} THEN -1 ELSE CHOOSE i \in hits : \A j \in hits : i <= j

\* The header block of a valid region that holds a separator.
HeaderBlock(bytes) == SubSeq(bytes, 1, FirstSplit(bytes))

\* The 1-based places at which a text holds the field name "Content-Length:".
FieldPlaces(text) ==
    {i \in 1..(Len(text) - 14) : SubSeq(text, i, i + 14) = CONTENTLENGTH_LITERAL}

\* The value of the first Content-Length field of a header block: the text
\* after the name up to the end of the line, without the blanks before it.
FieldValue(text) ==
    LET at == CHOOSE i \in FieldPlaces(text) : \A j \in FieldPlaces(text) : i <= j
        line == {j \in (at + 15)..Len(text) : text[j] = 13}
        stop == IF line = {} THEN Len(text) + 1 ELSE CHOOSE j \in line : \A k \in line : j <= k
        blank == {j \in (at + 15)..(stop - 1) : \A k \in (at + 15)..j : text[k] = 32}
    IN  SubSeq(text, at + 15 + Cardinality(blank), stop - 1)

\* A non-negative decimal integer: one or more digits and nothing else.
IsDecimal(text) == text # <<>> /\ \A i \in DOMAIN text : text[i] \in 48..57

\* The bodies extracted so far.
ExtractedBodies == [i \in DOMAIN extracted |-> extracted[i].body]

\* How many times the body with this id has been handed to server.sendRequest.
TimesSent(id) == Cardinality({j \in DOMAIN sent : sent[j].id = id})

---------------------------------------------------------------------------
(* C1.  Chunk-boundary invariance: once every byte of a stream of          *)
(* well-formed messages has been fed to a freshly started framer, in any   *)
(* chunking, the bodies enqueued are exactly the bodies of the stream, in  *)
(* order.                                                                  *)
C1_ChunkBoundaryInvariance ==
    (AllWellFormed /\ pos = Len(wire)) => ExtractedBodies = BodiesOf(stream)

(* C2.  Pipelining: a call whose chunk holds two complete back-to-back     *)
(* messages (here: the whole of a two-message stream, fed to the fresh     *)
(* framer) enqueues both bodies, in order, during that call.               *)
C2_Pipelining ==
    (AllWellFormed /\ Len(stream) = 2 /\ lastCall.from = 0 /\ lastCall.to = Len(wire))
        => ExtractedBodies = BodiesOf(stream)

(* C3.  Compaction correctness: right after a call has extracted a         *)
(* message, the valid region [0, requestBufferOffset) holds exactly the    *)
(* bytes received so far that followed that message's body in the input.   *)
C3_CompactionCorrect ==
    outcome = "extracted" =>
        LET last == extracted[Len(extracted)]
            endAt == IF last.bodyAt = <<>> THEN last.splitAt[4] ELSE last.bodyAt[Len(last.bodyAt)]
        IN  /\ requestBufferOffset = pos - endAt
            /\ BytesOf(requestBuffer, 0, requestBufferOffset) = SubSeq(wire, endAt + 1, pos)

(* C4.  Partial data is never an error: in a well-formed stream, a call    *)
(* whose chunk lies within one message and does not complete it returns    *)
(* normally (more bytes needed) and enqueues nothing.                      *)
C4_PartialIsNotAnError ==
    (/\ AllWellFormed
     /\ outcome # "none"
     /\ \E k \in DOMAIN stream :
            EndOfMessage(k - 1) <= lastCall.from /\ lastCall.to < EndOfMessage(k))
        => outcome \in {"needHeaders", "needBody"} /\ lastCall.enqueued = 0

C6_NotANumberIsFatal ==
    (/\ outcome # "none"
     /\ FirstSplit(lastCall.valid) >= 0
     /\ FieldPlaces(HeaderBlock(lastCall.valid)) # {}
     /\ ~IsDecimal(FieldValue(HeaderBlock(lastCall.valid))))
        => outcome = "malformed" /\ lastCall.enqueued = 0

(* C7.  FIFO submission: the bodies handed to server.sendRequest, followed *)
(* by those still queued, are exactly the bodies extracted, in the order   *)
(* of extraction: each leaves the queue once, when it is handed over.      *)
C7_FifoSubmission ==
    LET all == sent \o requestMessageBufferQueue
    IN  /\ Len(all) = Len(extracted)
        /\ \A i \in DOMAIN all : all[i].id = i /\ EntryBytes(all[i]) = extracted[i].body

\* C7's case: two bodies were extracted and both have been handed over, in order.
C7_Witness ==
    /\ Len(sent) = 2
    /\ sent[1].id = 1 /\ sent[2].id = 2
    /\ requestMessageBufferQueue = <<>>

(* C8.  Every body enqueued is in the end handed to server.sendRequest,    *)
(* and never more than once, when every scheduled drain runs.              *)
C8_EventuallySentOnce ==
    /\ [](\A i \in 1..MaxMessages : TimesSent(i) <= 1)
    /\ \A i \in 1..MaxMessages : (Len(extracted) >= i) ~> (TimesSent(i) = 1)

\* C8's case: a second body was enqueued behind the first and both were sent.
C8_Witness == Len(extracted) = 2 /\ TimesSent(1) = 1 /\ TimesSent(2) = 1 /\ immediates = 0

(* C9.  Enqueue order: the messages enqueued so far were taken from the    *)
(* input stream at increasing places, and the queue holds them in that     *)
(* order.                                                                  *)
C9_EnqueueOrder ==
    /\ \A i, j \in DOMAIN extracted : i < j => extracted[i].splitAt[4] < extracted[j].splitAt[1]
    /\ \A i, j \in DOMAIN requestMessageBufferQueue :
          i < j => extracted[requestMessageBufferQueue[i].id].splitAt[1]
                     < extracted[requestMessageBufferQueue[j].id].splitAt[1]

\* C9's case: two messages are in the queue at once.
C9_Witness == Len(requestMessageBufferQueue) = 2 /\ Len(extracted) = 2

---------------------------------------------------------------------------
\* The stream is a single well-formed message.
SingleMessage == Len(stream) = 1 /\ WellFormed(stream[1])

(* C11.  A single message split into chunks at any byte offset and fed to  *)
(* a fresh framer: no call that ends before the last byte of the message   *)
(* enqueues anything, and the call that delivers the last byte enqueues    *)
(* exactly one body, the body of the message.                              *)
C11_SplitMessage ==
    SingleMessage =>
        /\ lastCall.to < Len(wire) =>
              /\ lastCall.enqueued = 0
              /\ extracted = <<>>
              /\ requestMessageBufferQueue = <<>> /\ sent = <<>>
        /\ (lastCall.from < Len(wire) /\ lastCall.to = Len(wire)) =>
              /\ lastCall.enqueued = 1
              /\ ExtractedBodies = <<stream[1].body>>
              /\ Len(sent \o requestMessageBufferQueue) = 1
              /\ EntryBytes((sent \o requestMessageBufferQueue)[1]) = stream[1].body

\* C11's case: "Content-Length: 5\r\n\r\nhe" was in the buffer when the chunk
\* "llo" came, and that call enqueued "hello".
C11_Witness ==
    /\ stream = <<Framed(BodyHello)>>
    /\ lastCall.at = 23 /\ lastCall.from = 23 /\ lastCall.to = 26
    /\ lastCall.enqueued = 1
    /\ ExtractedBodies = <<BodyHello>>

BufferOf(bytes) ==
    [byteLength |-> Max(BUFFER_CHUNK_SIZEBYTES, Len(bytes)),
     data |-> Trimmed([i \in DOMAIN bytes |-> <<bytes[i], 0>>])]

\* index.ts:82-99: what a call does once the chunk is in the buffer, as a
\* function of the buffer and of the offset: it returns for more bytes,
\* throws, or extracts a body.
Framing(buffer, offset) ==
    LET splitOffset == IndexOf(buffer, BODY_SPLIT_CHARS)
        headers == ToString(buffer, splitOffset)
        contentLength == NumberOf(ExecContentLength(headers))
        minRequiredOffset == MinRequiredOffset(splitOffset, contentLength)
    IN  IF splitOffset < 0 THEN [kind |-> "return", body |-> <<>>]
        ELSE IF IsNaN(contentLength) THEN [kind |-> "error", body |-> <<>>]
        ELSE IF StillReading(offset, minRequiredOffset) THEN [kind |-> "return", body |-> <<>>]
        ELSE [kind |-> "extract",
              body |-> BytesOf(RequestMessageBuffer(buffer, splitOffset, contentLength,
                                                    minRequiredOffset), 0, contentLength)]

(* C13.  The outcome of a call depends only on the bytes of the valid      *)
(* region [0, requestBufferOffset) after the append: the call does what it *)
(* would do had the buffer held zeros, and not the stale bytes of earlier  *)
(* messages, from requestBufferOffset on.                                  *)
C13_ValidRegionOnly ==
    outcome \in {"needHeaders", "malformed", "needBody", "extracted"} =>
        Framing(BufferOf(lastCall.valid \o lastCall.stale), Len(lastCall.valid))
            = Framing(BufferOf(lastCall.valid), Len(lastCall.valid))

(* C14.  A call appends every byte of its chunk: the n bytes of the chunk, *)
(* also of a chunk that is a view at a byteOffset other than 0, are at     *)
(* [offset, offset + n) of the request buffer, where offset is the write   *)
(* offset before the call, and the write offset has advanced by n, before  *)
(* the separator is searched.                                              *)
C14_AppendsEveryByte ==
    outcome # "none" =>
        LET n == lastCall.to - lastCall.from
        IN  /\ outcome # "rangeError"
            /\ Len(lastCall.valid) = lastCall.at + n
            /\ SubSeq(lastCall.valid, lastCall.at + 1, lastCall.at + n)
                  = SubSeq(wire, lastCall.from + 1, lastCall.to)

OutcomeKind(o) ==
    CASE o \in {"needHeaders", "needBody"} -> "return"
      [] o = "malformed" -> "error"
      [] o = "extracted" -> "extract"
      [] OTHER -> "none"

C17_RejectionRecoverable ==
    (\E j \in DOMAIN promises : promises[j] = "rejected") =>
        /\ "unhandledRejection" \notin uncaught
        /\ Running

C19_FatalErrorReachesStart ==
    outcome = "malformed" =>
        /\ "malformed" \in mainCaught
        /\ "malformed" \notin uncaught

(* C20.  Outbound encoding: each response body is written to stdout in one *)
(* write, in order, as the text "Content-Length: n" with n the number of   *)
(* bytes of the body, the separator, and the bytes of the body unchanged.  *)
C20_OutboundEncoding ==
    /\ Len(stdout) = Len(responses)
    /\ \A k \in DOMAIN responses :
          stdout[k] = CONTENTLENGTH_PREFIX \o Decimal(Len(responses[k]))
                        \o BODY_SPLIT_CHARS \o responses[k]

(* C21.  Round trip: when the wire bytes of a single message whose header  *)
(* block is the Content-Length field alone are fed to the framer and the   *)
(* body extracted is given to the outbound encoder, the bytes written are  *)
(* the wire bytes of the message.                                          *)
C21_RoundTrip ==
    (Len(stream) = 1 /\ stream[1] = Framed(stream[1].body)) =>
        \A k \in DOMAIN stdout :
            (\E entry \in Range(sent \o requestMessageBufferQueue) :
                 EntryBytes(entry) = responses[k])
                => stdout[k] = wire

(* C22.  The outbound encoder keeps no state and touches none: the bytes   *)
(* written for a body are the same whatever was written or received        *)
(* before, and a call leaves the request buffer, its offset, the queue,    *)
(* the pending drains and everything written earlier as they are.          *)
C22_EncoderStateless ==
    /\ [](\A j, k \in DOMAIN responses : responses[j] = responses[k] => stdout[j] = stdout[k])
    /\ [][Len(stdout') > Len(stdout) =>
             /\ UNCHANGED <<requestBuffer, requestBufferOffset, requestMessageBufferQueue,
                            immediates, sent, promises, pos, outcome>>
             /\ Len(stdout') = Len(stdout) + 1
             /\ SubSeq(stdout', 1, Len(stdout)) = stdout]_vars

\* C22's case: the same body was written twice, and the header block of a
\* message lies in the request buffer, whose body is awaited.
C22_Witness ==
    /\ Len(stdout) = 2 /\ responses[1] = responses[2] /\ responses[1] # <<>>
    /\ stdout[1] = stdout[2]
    /\ requestBufferOffset > 0
    /\ outcome = "needBody"

\* The places at which a header block holds a line that begins with the
\* field name "Content-Length:".
FieldLines(text) ==
    {i \in FieldPlaces(text) : i = 1 \/ (i >= 3 /\ text[i - 2] = 13 /\ text[i - 1] = 10)}

\* The value of the field that begins at a place of a header block: the text
\* after the name up to the end of the line, without the blanks before it.
FieldValueAt(text, at) ==
    LET line == {j \in (at + 15)..Len(text) : text[j] = 13}
        stop == IF line = {} THEN Len(text) + 1 ELSE CHOOSE j \in line : \A k \in line : j <= k
        blank == {j \in (at + 15)..(stop - 1) : \A k \in (at + 15)..j : text[k] = 32}
    IN  SubSeq(text, at + 15 + Cardinality(blank), stop - 1)

(* C23.  No other header field affects framing: when the header block of   *)
(* an extracted message has a Content-Length line with a decimal value,    *)
(* the length used for framing is that value, whatever other lines stand   *)
(* before or after it, and the body extracted from a single message is the *)
(* body of the message.                                                    *)
C23_OtherHeadersIgnored ==
    \A i \in DOMAIN extracted :
        LET h == extracted[i].headers
        IN  \A at \in FieldLines(h) :
                IsDecimal(FieldValueAt(h, at)) =>
                    /\ extracted[i].contentLength = DecimalValue(FieldValueAt(h, at))
                    /\ Len(extracted[i].body) = DecimalValue(FieldValueAt(h, at))
                    /\ Len(stream) = 1 => extracted[i].body = stream[1].body

\* The entries that went on the queue, in order: those handed over, then
\* those still queued.
Enqueued == sent \o requestMessageBufferQueue

(* C24.  An extracted body is a copy of its own: from the step that        *)
(* enqueues it on, whatever later calls append to the request buffer, grow *)
(* it or compact it, the bytes of the entry (queued or handed over) are    *)
(* the bytes that were extracted.                                          *)
C24_BodyIsOwnCopy ==
    /\ [](\A i \in DOMAIN Enqueued : EntryBytes(Enqueued[i]) = extracted[Enqueued[i].id].body)
    /\ [][\A i \in DOMAIN Enqueued :
             /\ i <= Len(sent' \o requestMessageBufferQueue')
             /\ (sent' \o requestMessageBufferQueue')[i] = Enqueued[i]]_vars

\* C24's case: the body "a" is still queued, and later calls have appended
\* to the request buffer, grown it, and extracted and compacted once more.
C24_Witness ==
    /\ Len(requestMessageBufferQueue) = 2
    /\ EntryBytes(requestMessageBufferQueue[1]) = BodyA
    /\ requestMessageBufferQueue[2].byteLength = BigBodyLen
    /\ requestBuffer.byteLength > BUFFER_CHUNK_SIZEBYTES
    /\ outcome = "extracted"

(* C25.  In every state, 0 <= requestBufferOffset <= the length of the     *)
(* request buffer.                                                         *)
C25_OffsetWithinBuffer ==
    0 <= requestBufferOffset /\ requestBufferOffset <= requestBuffer.byteLength

\* C25's case: the buffer has grown and the offset lies beyond the length it
\* was allocated with.
C25_Witness ==
    /\ requestBufferOffset > BUFFER_CHUNK_SIZEBYTES
    /\ requestBuffer.byteLength >= requestBufferOffset
    /\ outcome = "needBody"

(* C26.  Growth keeps the data: a call that grows the request buffer finds *)
(* the bytes of [0, requestBufferOffset) where they were; and the length   *)
(* of the request buffer never decreases, also in a call that extracts a   *)
(* message and compacts.                                                   *)
C26_GrowthKeepsData ==
    [][/\ requestBuffer'.byteLength >= requestBuffer.byteLength
       /\ requestBuffer'.byteLength > requestBuffer.byteLength =>
             /\ lastCall'.at = requestBufferOffset
             /\ SubSeq(lastCall'.valid, 1, requestBufferOffset)
                   = BytesOf(requestBuffer, 0, requestBufferOffset)]_vars

\* C26's case: a call grew the buffer that held bytes, appended to them, and
\* extracted the message they completed, compacting the grown buffer.
C26_Witness ==
    /\ outcome = "extracted"
    /\ lastCall.at > 0
    /\ Len(lastCall.valid) > BUFFER_CHUNK_SIZEBYTES
    /\ requestBuffer.byteLength > BUFFER_CHUNK_SIZEBYTES

(* C27.  Growth policy: a call grows the request buffer exactly when the   *)
(* offset plus the length of the chunk exceeds the length of the buffer;   *)
(* it adds BUFFER_CHUNK_SIZEBYTES * (floor(chunk length / 2048) + 1)       *)
(* bytes, more than the chunk has; the chunk then fits and every byte of   *)
(* it is appended; the length of the buffer is always a positive multiple  *)
(* of BUFFER_CHUNK_SIZEBYTES.                                              *)
C27_GrowthPolicy ==
    /\ [](requestBuffer.byteLength > 0 /\ requestBuffer.byteLength % BUFFER_CHUNK_SIZEBYTES = 0)
    /\ [][immediates' >= immediates =>
             LET n == pos' - pos
                 added == requestBuffer'.byteLength - requestBuffer.byteLength
             IN  /\ (added # 0) <=> (requestBufferOffset + n > requestBuffer.byteLength)
                 /\ added # 0 =>
                       /\ added = BUFFER_CHUNK_SIZEBYTES * ((n \div BUFFER_CHUNK_SIZEBYTES) + 1)
                       /\ added > n
                 /\ requestBufferOffset + n <= requestBuffer'.byteLength
                 /\ Len(lastCall'.valid) = requestBufferOffset + n]_vars

\* C27's case: a chunk of exactly BUFFER_CHUNK_SIZEBYTES came when the buffer
\* held bytes, and the buffer grew by two times that constant.
C27_Witness ==
    /\ lastCall.to - lastCall.from = BUFFER_CHUNK_SIZEBYTES
    /\ lastCall.at > 0
    /\ requestBuffer.byteLength = 3 * BUFFER_CHUNK_SIZEBYTES
    /\ Len(lastCall.valid) = lastCall.at + BUFFER_CHUNK_SIZEBYTES

\* The outcomes of a call that returned normally.
ReturnedNormally == {"needHeaders", "needBody", "extracted"}

(* C28.  A chunk of length zero is a no-op: when the previous call         *)
(* returned normally, a call with an empty chunk leaves the request        *)
(* buffer, its offset and the queue unchanged, schedules no drain and      *)
(* throws no error.                                                        *)
C28_EmptyChunkNoOp ==
    [][(pos' = pos /\ sent' = sent /\ outcome \in ReturnedNormally) =>
          /\ requestBuffer' = requestBuffer
          /\ requestBufferOffset' = requestBufferOffset
          /\ requestMessageBufferQueue' = requestMessageBufferQueue
          /\ immediates' = immediates
          /\ outcome' \in ReturnedNormally]_vars

\* A step that appends a chunk to the request buffer or extracts a message.
TakesInbound ==
    \/ pos' # pos
    \/ requestBuffer' # requestBuffer
    \/ requestBufferOffset' # requestBufferOffset
    \/ Len(extracted') # Len(extracted)

(* C29.  stop() halts acceptance of inbound chunks: once stop() has been   *)
(* called, no step appends a chunk to the request buffer or extracts or    *)
(* enqueues a message.                                                     *)
C29_StopHaltsInbound == [][stopped => ~TakesInbound]_vars

\* index.ts:50-53: what the adapter does itself: once the promise of
\* server.start() has settled, stdin is paused and no chunk is taken.
HaltsOnceStartSettled == [][(serverStart # "pending" /\ serverStart # "none") => ~TakesInbound]_vars

(* C30.  stop() releases the request buffer and the queue: once stop()   *)
(* has been called, the adapter holds no buffered inbound byte and no      *)
(* queued body.                                                            *)
C30_StopReleases ==
    stopped => (requestBufferOffset = 0 /\ requestMessageBufferQueue = <<>>)

(* C31.  stop() cancels no outstanding work.  The call itself leaves the  *)
(* scheduled callbacks, the queue, the submissions made and their promises *)
(* as they are; a promise changes only by the server settling it; and      *)
(* every callback that was scheduled when stop() was called runs           *)
(* afterwards and hands the server the body at the head of the queue,      *)
(* unless the process has ended by then.                                   *)
C31_StopCancelsNothing ==
    /\ [][(stopped' /\ ~stopped) =>
             UNCHANGED <<immediates, requestMessageBufferQueue, sent, promises>>]_vars
    /\ [][(\E j \in DOMAIN promises : promises'[j] # promises[j]) =>
             UNCHANGED <<stopped, serverStops, immediates, requestMessageBufferQueue, sent>>]_vars
    /\ [](stopped =>
             \A k \in (atStop.sent + 1)..Min(Len(sent), atStop.sent + atStop.immediates) :
                 sent[k] # Undefined /\ sent[k].id = k)
    /\ (stopped ~> (Len(sent) >= atStop.sent + atStop.immediates \/ ~Running))

\* C31's case: at stop() one submission was in flight and one callback was
\* scheduled; since then the callback has run and handed over the second
\* body, and the server has resolved the promise that was pending.
C31_Witness ==
    /\ stopped /\ serverStops = 1 /\ Running
    /\ atStop.immediates = 1 /\ atStop.sent = 1 /\ atStop.pending = {1}
    /\ Len(sent) = 2 /\ sent[2].id = 2
    /\ promises[1] = "resolved"

(* C32.  In every state the number of callbacks that are scheduled and   *)
(* have not run is the length of the queue; so no callback finds the queue *)
(* empty, and server.sendRequest is never called with undefined.           *)
C32_OneDrainPerEntry ==
    /\ immediates = Len(requestMessageBufferQueue)
    /\ \A k \in DOMAIN sent : sent[k] # Undefined /\ sent[k].id = k

\* C32's case: two messages were enqueued; one callback has run and handed
\* over the first, one is scheduled and the second body is in the queue.
C32_Witness ==
    /\ Len(extracted) = 2
    /\ immediates = 1 /\ Len(requestMessageBufferQueue) = 1
    /\ Len(sent) = 1 /\ sent[1].id = 1
    /\ requestMessageBufferQueue[1].id = 2

\* The last call threw the malformed-message error, and the header block it
\* read, with the separator that ends it, lies in the valid region of the
\* buffer.
MalformedInValid(o, buffer, offset) ==
    /\ o = "malformed"
    /\ IndexOf(buffer, BODY_SPLIT_CHARS) >= 0
    /\ IndexOf(buffer, BODY_SPLIT_CHARS) + Len(BODY_SPLIT_CHARS) <= offset

(* C33.  No resynchronisation: once a call has thrown the malformed-       *)
(* message error for a header block in the valid region, the bytes stay at *)
(* the start of the buffer and the offset is not reset; every later call   *)
(* throws the same error and no body is enqueued any more.                 *)
C33_NoResync ==
    [][MalformedInValid(outcome, requestBuffer, requestBufferOffset) =>
          /\ MalformedInValid(outcome', requestBuffer', requestBufferOffset')
          /\ requestBufferOffset' >= requestBufferOffset
          /\ BytesOf(requestBuffer', 0, requestBufferOffset)
                = BytesOf(requestBuffer, 0, requestBufferOffset)
          /\ Len(extracted') = Len(extracted)
          /\ Len(sent' \o requestMessageBufferQueue') = Len(sent \o requestMessageBufferQueue)
          /\ pos' # pos => "malformed" \in uncaught' /\ lastCall'.enqueued = 0]_vars

\* C33's case: the error was thrown for the first message, and a later call
\* brought the whole of the well-formed message that follows it, and threw.
C33_Witness ==
    /\ MalformedInValid(outcome, requestBuffer, requestBufferOffset)
    /\ Len(stream) = 2 /\ pos = Len(wire)
    /\ lastCall.at >= IndexOf(requestBuffer, BODY_SPLIT_CHARS) + Len(BODY_SPLIT_CHARS)
    /\ lastCall.to - lastCall.from >= Len(WireOf(stream[2]))
    /\ extracted = <<>>

(* C34.  The listener never runs on fields that are null: the 'data'     *)
(* listener is attached only when the server, the buffer, the offset and   *)
(* the queue have been set, so every call of it finds them set; and the    *)
(* step that sets them leaves an empty buffer of BUFFER_CHUNK_SIZEBYTES    *)
(* bytes, the offset 0 and an empty queue.                                 *)
C34_InitialisedBeforeListening ==
    /\ [](listening => unset = {})
    /\ []("typeError" \notin uncaught)
    /\ [][(pos' # pos \/ lastCall' # lastCall \/ outcome' # outcome) =>
             (listening /\ unset = {})]_vars
    /\ [][(unset # {} /\ unset' = {}) =>
             /\ ~listening /\ listening'
             /\ requestBuffer' = Alloc(BUFFER_CHUNK_SIZEBYTES)
             /\ requestBufferOffset' = 0
             /\ requestMessageBufferQueue' = <<>>]_vars

\* C34's case: the adapter has started, and the listener has been called
\* and has extracted a message.
C34_Witness ==
    /\ importing = "resolved" /\ listening /\ unset = {}
    /\ outcome = "extracted" /\ Len(extracted) = 1
    /\ requestBuffer.byteLength = BUFFER_CHUNK_SIZEBYTES

(* C35.  stop() before the server exists throws 'The server has not been   *)
(* started.' and changes no state of the adapter; stop() when the server   *)
(* exists calls server.stop() once and does not throw.                     *)
C35_StopNeedsServer ==
    [][(stopped' /\ ~stopped) =>
          IF "server" \in unset
          THEN /\ "notStarted" \in uncaught'
               /\ serverStops' = serverStops
               /\ UNCHANGED <<unset, listening, importing, serverStart, paused,
                              requestBuffer, requestBufferOffset, requestMessageBufferQueue,
                              immediates, sent, promises>>
          ELSE /\ serverStops' = serverStops + 1
               /\ uncaught' = uncaught
               /\ "notStarted" \notin uncaught']_vars

\* C35's case: stop() was called while start() awaited the import, and threw.
C35_Witness ==
    /\ stopped /\ "server" \in unset /\ importing = "pending"
    /\ uncaught = {"notStarted"}
    /\ serverStops = 0

(* C36.  A first SIGINT while start() awaits the import calls stop() with  *)
(* no server: stop() throws inside the signal handler and the server is    *)
(* not stopped; and startup goes on: the import settles, and when it is    *)
(* fulfilled start() attaches the listener and starts the server.          *)
C36_SigintDuringStartup ==
    /\ [][(stopped' /\ ~stopped /\ importing = "pending") =>
             /\ "server" \in unset
             /\ "notStarted" \in uncaught'
             /\ serverStops' = serverStops]_vars
    /\ ((stopped /\ importing = "pending") ~> (listening \/ importing = "rejected"))

(* C37.  When the promise of server.start() has settled, resolved or       *)
(* rejected, both stdin and stdout are paused by the time start() of the   *)
(* adapter has settled, and a rejection has reached the caller of start(). *)
C37_FinallyPauses ==
    (serverStart \in {"resolved", "rejected"}) =>
        /\ listening
        /\ {"stdin", "stdout"} \subseteq paused
        /\ serverStart = "rejected" => "serverStart" \in mainCaught

\* C37's case: chunks came in, then the server rejected the promise of its
\* start().
C37_Witness ==
    /\ serverStart = "rejected"
    /\ pos > 0 /\ listening
    /\ paused = {"stdin", "stdout"}
    /\ mainCaught = {"serverStart"}

=============================================================================
